---- MODULE Spec2Model ----
(***************************************************************************)
(* Canteen ordering system (src/index.js): the cart, the order state       *)
(* machine, the pricing strategies, the observer mechanism and the two     *)
(* in-memory repositories.                                                 *)
(*                                                                         *)
(* JavaScript objects are references.  CartItem objects live in `heap`     *)
(* (a reference is an index into it) because Cart.getItems() copies the    *)
(* array but shares the CartItem objects with its caller.  Money is kept   *)
(* in thousandths of a euro so that the 10% combo reduction is exact.      *)
(***************************************************************************)
EXTENDS Integers, Sequences, FiniteSets, TLC

\* ---------------------------------------------------------------- bounds
MaxHeap == 3        \* CartItem objects ever allocated
MaxQty == 3         \* largest quantity accumulated for one id
MaxCalls == 5       \* advanceStatus calls recorded for one order
MaxItems == 2       \* length of an item list handed to a pricing strategy
MaxMenu == 2        \* length of a seeded menu
MaxClock == 4       \* registrations made on the subject
MaxNow == 1         \* largest value Date.now() returns
MaxAdds == 2        \* clicks on 'Add' in the application

\* ------------------------------------------------------------- domains
CartIds == {"m1", "m2", "m9"}          \* "m9" is in no menu
QtyArgs == {-5, 0, 1, 2}               \* qty arguments handed to addItem
NoArg == "-"
Observers == {"X", "Y", "Z"}            \* observer instances
MenuIds == {"m1", "m2"}
Prices == {2000, 3500}                 \* 2.00 and 3.50 euro
AnyStatus == {"RECEIVED", "PREPARING", "READY", "PICKED_UP", "CANCELLED"}

\* src/index.js:6-11
OrderStatus == [RECEIVED |-> "RECEIVED", PREPARING |-> "PREPARING",
                READY |-> "READY", PICKED_UP |-> "PICKED_UP"]

VARIABLES
    heap,        \* CartItem objects: heap[r] = [menuItemId, quantity]
    cartItems,   \* Cart.items: sequence of references into heap
    error,       \* "none", or the exception the last call propagated
    lastOp,      \* the last call made and its arguments
    added,       \* per id: sum of the positive qty added since the id was
                 \* last removed or the cart last cleared
    menuItems,   \* SqliteMenuRepository._items
    orders,      \* SqliteOrderRepository._orders (Order objects)
    statusLog,   \* per order: its status at creation, then after each
                 \* advanceStatus call
    savedIds,    \* the order ids in the order of their first save
    observers,   \* OrderSubject.observers
    delivered,   \* the onStatusChanged invocations of the last notify call
    attachedAt,  \* per observer: when it became registered, 0 if it is not
    clock,       \* number of registrations made so far
    now,         \* the value Date.now() returned last
    placed,      \* per successful checkout: the Order object it created as
                 \* it was then, the values of its items, and the size the
                 \* cart had while the observers were notified
    notified     \* per successful checkout: the onStatusChanged invocations
                 \* the UI observer got for the Order object it created, each
                 \* with the status the store held for the id at that moment

vars == <<heap, cartItems, error, lastOp, added, menuItems, orders, statusLog,
          savedIds,
          observers, delivered, attachedAt, clock, now, placed, notified>>

cartVars == <<heap, cartItems, added>>
orderVars == <<orders, statusLog, savedIds>>
subjVars == <<observers, delivered, attachedAt, clock>>
appVars == <<now, placed, notified>>

Op(op, a, b) == [op |-> op, a |-> a, b |-> b]

\* ------------------------------------------------------------------ Cart

\* new CartItem(menuItemId, quantity)
CartItem(menuItemId, quantity) ==
    [menuItemId |-> menuItemId, quantity |-> quantity]

\* Array.prototype.find over Cart.items: the first position whose CartItem
\* has the id, 0 when there is none
findCartItem(h, items, menuItemId) ==
    LET hits == {i \in 1..Len(items) : h[items[i]].menuItemId = menuItemId}
    IN  IF hits = {} THEN 0 ELSE CHOOSE i \in hits : \A j \in hits : i <= j

\* a cart is the pair of the object heap and Cart.items
CartState(h, items) == [heap |-> h, items |-> items]

\* mutant: the guard lets qty = 0 through
addItem_zeroQty(h, items, menuItemId, qty) ==
    IF qty < 0 THEN CartState(h, items)
    ELSE LET existing == findCartItem(h, items, menuItemId)
         IN  IF existing # 0
             THEN CartState([h EXCEPT ![items[existing]].quantity = @ + qty], items)
             ELSE CartState(Append(h, CartItem(menuItemId, qty)),
                            Append(items, Len(h) + 1))

\* mutant: always pushes a new CartItem
addItem_alwaysPush(h, items, menuItemId, qty) ==
    IF qty <= 0 THEN CartState(h, items)
    ELSE CartState(Append(h, CartItem(menuItemId, qty)),
                   Append(items, Len(h) + 1))

\* Cart.addItem
addItem(h, items, menuItemId, qty) ==
    IF qty <= 0 THEN CartState(h, items)
    ELSE LET existing == findCartItem(h, items, menuItemId)
         IN  IF existing # 0
             THEN CartState([h EXCEPT ![items[existing]].quantity = @ + qty], items)
             ELSE CartState(Append(h, CartItem(menuItemId, qty)),
                            Append(items, Len(h) + 1))

\* mutant: the filter's test is inverted (=== for !==)
removeItem_keepsMatch(h, items, menuItemId) ==
    SelectSeq(items, LAMBDA r : h[r].menuItemId = menuItemId)

\* Cart.removeItem
removeItem(h, items, menuItemId) ==
    SelectSeq(items, LAMBDA r : h[r].menuItemId # menuItemId)

\* Cart.getItems: a new array holding the same CartItem references
getItems(items) == [i \in 1..Len(items) |-> items[i]]

\* mutant: the cart keeps its items
clear_keepsItems(items) == items

\* Cart.clear
clear(items) == << >>

\* the cart's contents as values
CartView == [i \in 1..Len(cartItems) |-> heap[cartItems[i]]]

InitCart ==
    /\ heap = << >>
    /\ cartItems = << >>
    /\ error = "none"
    /\ lastOp = Op("init", NoArg, NoArg)
    /\ added = [id \in CartIds |-> 0]
    /\ menuItems = << >>
    /\ orders = << >>
    /\ statusLog = << >>
    /\ observers = << >>
    /\ delivered = << >>
    /\ attachedAt = [o \in Observers |-> 0]
    /\ clock = 0
    /\ savedIds = << >>
    /\ now = 0
    /\ placed = << >>
    /\ notified = << >>

AddItem(menuItemId, qty) ==
    /\ qty > 0 => added[menuItemId] + qty <= MaxQty
    /\ (qty > 0 /\ findCartItem(heap, cartItems, menuItemId) = 0)
          => Len(heap) < MaxHeap
    /\ LET c == addItem(heap, cartItems, menuItemId, qty)
       IN  /\ heap' = c.heap
           /\ cartItems' = c.items
    /\ added' = IF qty > 0 THEN [added EXCEPT ![menuItemId] = @ + qty] ELSE added
    /\ lastOp' = Op("addItem", menuItemId, qty)
    /\ UNCHANGED <<error, menuItems, orderVars, subjVars, appVars>>

RemoveItem(menuItemId) ==
    /\ cartItems' = removeItem(heap, cartItems, menuItemId)
    /\ added' = [added EXCEPT ![menuItemId] = 0]
    /\ lastOp' = Op("removeItem", menuItemId, NoArg)
    /\ UNCHANGED <<heap, error, menuItems, orderVars, subjVars, appVars>>

Clear ==
    /\ cartItems' = clear(cartItems)
    /\ added' = [id \in CartIds |-> 0]
    /\ lastOp' = Op("clear", NoArg, NoArg)
    /\ UNCHANGED <<heap, error, menuItems, orderVars, subjVars, appVars>>

NextCart ==
    \/ \E id \in CartIds, qty \in QtyArgs : AddItem(id, qty)
    \/ \E id \in CartIds : RemoveItem(id)
    \/ Clear

SpecCart == InitCart /\ [][NextCart]_vars

\* ------------------------------------------------------- claims on the cart

IdsInCart == {CartView[i].menuItemId : i \in 1..Len(cartItems)}

\* C2: after any sequence of addItem, removeItem and clear the cart holds at
\* most one CartItem per menuItemId, and the quantity of every id present is
\* the sum of the positive qty added since the id was last removed or the
\* cart last cleared.
C2_OneEntryPerIdWithSummedQty ==
    /\ \A i, j \in 1..Len(cartItems) :
          CartView[i].menuItemId = CartView[j].menuItemId => i = j
    /\ \A i \in 1..Len(cartItems) :
          CartView[i].quantity = added[CartView[i].menuItemId]

\* an id re-added after a removal, its quantity summed over two calls
C2_Witness ==
    /\ lastOp.op = "addItem"
    /\ Len(heap) > Len(cartItems)
    /\ Len(cartItems) = 2
    /\ \E i \in 1..Len(cartItems) :
          /\ CartView[i].menuItemId = lastOp.a
          /\ CartView[i].quantity = 3
          /\ \E r \in 1..Len(heap) :
                r # cartItems[i] /\ heap[r].menuItemId = lastOp.a

\* C3: addItem(id, qty) with qty <= 0 leaves the cart contents unchanged,
\* whether or not id is in the cart: no entry added, no quantity changed, no
\* error raised.
C3_NonPositiveQtyIsNoOp ==
    [][(lastOp'.op = "addItem" /\ lastOp'.b <= 0)
          => /\ CartView' = CartView
             /\ cartItems' = cartItems
             /\ error' = "none"]_vars

\* addItem(id, -5) was called for an id that is in a cart of two entries
C3_Witness ==
    /\ lastOp.op = "addItem"
    /\ lastOp.b = -5
    /\ lastOp.a \in IdsInCart
    /\ Len(cartItems) = 2

\* C4: removeItem(id) removes every entry with that id and leaves the other
\* entries and their quantities unchanged; calling it again changes nothing,
\* and calling it for an id not in the cart changes nothing.
C4_RemoveItemFiltersAndIsIdempotent ==
    [][lastOp'.op = "removeItem"
          => /\ CartView' = SelectSeq(CartView,
                                LAMBDA ci : ci.menuItemId # lastOp'.a)
             /\ removeItem(heap', cartItems', lastOp'.a) = cartItems'
             /\ (lastOp'.a \notin IdsInCart => CartView' = CartView)
             /\ error' = "none"]_vars

\* removeItem took an entry out of the cart and left another one in it
C4_Witness ==
    /\ lastOp.op = "removeItem"
    /\ Len(cartItems) = 1
    /\ Len(heap) = 2
    /\ lastOp.a \notin IdsInCart
    /\ \E r \in 1..Len(heap) : heap[r].menuItemId = lastOp.a

\* ----------------------------------------------------------------- Order

\* new MenuItem(id, name, price, category, tags, available); name, category
\* and tags are read by the rendering code only
MenuItem(id, price, available) ==
    [id |-> id, price |-> price, available |-> available]

\* new Order({id, userId, items, status, pickupTime, total}); items is the
\* array of CartItem references handed in; pickupTime (a Date) is only shown
Order(id, userId, items, status, total) ==
    [id |-> id, userId |-> userId, items |-> items, status |-> status,
     total |-> total]

\* the local `flow` of Order.advanceStatus
flow == <<OrderStatus.RECEIVED, OrderStatus.PREPARING,
          OrderStatus.READY, OrderStatus.PICKED_UP>>

\* Array.prototype.indexOf: zero-based, -1 when absent
indexOf(arr, x) ==
    LET hits == {i \in 1..Len(arr) : arr[i] = x}
    IN  IF hits = {} THEN -1
        ELSE (CHOOSE i \in hits : \A j \in hits : i <= j) - 1

\* mutant: the upper test is idx < flow.length, so that a call at PICKED_UP
\* stores flow[4], which is undefined
advanceStatus_offByOne(order) ==
    LET idx == indexOf(flow, order.status)
    IN  IF idx >= 0 /\ idx < Len(flow)
        THEN [order EXCEPT !.status =
                 IF idx + 2 <= Len(flow) THEN flow[idx + 2] ELSE "undefined"]
        ELSE order

\* mutant: an advance also resets the cached total
advanceStatus_resetsTotal(order) ==
    LET idx == indexOf(flow, order.status)
    IN  IF idx >= 0 /\ idx < Len(flow) - 1
        THEN [order EXCEPT !.status = flow[idx + 2], !.total = 0]
        ELSE order

\* Order.advanceStatus (flow[idx + 1] of a zero-based array is flow[idx + 2])
advanceStatus(order) ==
    LET idx == indexOf(flow, order.status)
    IN  IF idx >= 0 /\ idx < Len(flow) - 1
        THEN [order EXCEPT !.status = flow[idx + 2]]
        ELSE order

\* ------------------------------------------------------- PricingStrategy

\* Array.prototype.find over a menu: the first position with the id, 0 when
\* there is none
findMenuItem(menu, id) ==
    LET hits == {i \in 1..Len(menu) : menu[i].id = id}
    IN  IF hits = {} THEN 0 ELSE CHOOSE i \in hits : \A j \in hits : i <= j

\* the for-loop of both strategies from position k on; acc = [total, qtySum]
RECURSIVE pricingLoop(_, _, _, _)
pricingLoop(items, menu, k, acc) ==
    IF k > Len(items) THEN acc
    ELSE LET ci == items[k]
             mi == findMenuItem(menu, ci.menuItemId)
         IN  IF mi # 0 /\ menu[mi].available
             THEN pricingLoop(items, menu, k + 1,
                      [total |-> acc.total + menu[mi].price * ci.quantity,
                       qtySum |-> acc.qtySum + ci.quantity])
             ELSE pricingLoop(items, menu, k + 1, acc)

\* mutant: the availability test is dropped
SimplePricingStrategy_ignoresAvailable(items, menu) ==
    pricingLoop(items, [i \in 1..Len(menu) |->
                           [menu[i] EXCEPT !.available = TRUE]],
                1, [total |-> 0, qtySum |-> 0]).total

\* SimplePricingStrategy.computeTotal
SimplePricingStrategy_computeTotal(items, menu) ==
    pricingLoop(items, menu, 1, [total |-> 0, qtySum |-> 0]).total

\* total *= 0.9, on thousandths of a euro
TimesNineTenths(total) == (total * 9) \div 10

\* mutant: the threshold test is qtySum > 3
ComboPricingStrategy_strictThreshold(items, menu) ==
    LET acc == pricingLoop(items, menu, 1, [total |-> 0, qtySum |-> 0])
    IN  IF acc.qtySum > 3 THEN TimesNineTenths(acc.total) ELSE acc.total

\* ComboPricingStrategy.computeTotal
ComboPricingStrategy_computeTotal(items, menu) ==
    LET acc == pricingLoop(items, menu, 1, [total |-> 0, qtySum |-> 0])
    IN  IF acc.qtySum >= 3 THEN TimesNineTenths(acc.total) ELSE acc.total

\* pricing.computeTotal(items, menu), dispatched on the strategy's class
computeTotal(pricing, items, menu) ==
    IF pricing = "Combo" THEN ComboPricingStrategy_computeTotal(items, menu)
    ELSE SimplePricingStrategy_computeTotal(items, menu)

\* the CartItem objects an array of references holds
Deref(h, refs) == [i \in 1..Len(refs) |-> h[refs[i]]]

\* Order.calculateTotal
calculateTotal(h, order, pricing, menu) ==
    [order EXCEPT !.total = computeTotal(pricing, Deref(h, order.items), menu)]

\* SqliteMenuRepository.findAll: a copy of the array
SqliteMenuRepository_findAll(items) == [i \in 1..Len(items) |-> items[i]]

\* ------------------------------------------ specification: Order objects

\* two orders, each created with an arbitrary status value
InitOrder ==
    /\ heap = << >>
    /\ cartItems = << >>
    /\ error = "none"
    /\ lastOp = Op("init", NoArg, NoArg)
    /\ added = [id \in CartIds |-> 0]
    /\ menuItems = << >>
    /\ \E s1 \in AnyStatus, s2 \in AnyStatus :
          /\ orders = <<Order("o1", "u1", << >>, s1, 0),
                        Order("o2", "u1", << >>, s2, 0)>>
          /\ statusLog = << <<s1>>, <<s2>> >>
    /\ observers = << >>
    /\ delivered = << >>
    /\ attachedAt = [o \in Observers |-> 0]
    /\ clock = 0
    /\ savedIds = <<"o1", "o2">>
    /\ now = 0
    /\ placed = << >>
    /\ notified = << >>

AdvanceStatus(i) ==
    /\ Len(statusLog[i]) <= MaxCalls
    /\ orders' = [orders EXCEPT ![i] = advanceStatus(@)]
    /\ statusLog' = [statusLog EXCEPT ![i] = Append(@, orders'[i].status)]
    /\ lastOp' = Op("advanceStatus", i, NoArg)
    /\ UNCHANGED <<cartVars, error, menuItems, savedIds, subjVars, appVars>>

NextOrder == \E i \in 1..Len(orders) : AdvanceStatus(i)

SpecOrder == InitOrder /\ [][NextOrder]_vars

\* -------------------------------------- specification: pricing strategies

ItemLists ==
    UNION {[1..n -> [menuItemId : CartIds, quantity : 1..MaxQty]] :
              n \in 0..MaxItems}

\* menus hold one MenuItem per id, as a seeded and upserted store does
MenuSeeds ==
    {m \in UNION {[1..n -> [id : MenuIds, price : Prices,
                            available : BOOLEAN]] : n \in 0..MaxMenu} :
        \A i, j \in 1..Len(m) : m[i].id = m[j].id => i = j}

\* an order over an arbitrary item list, and an arbitrary menu
InitPricing ==
    /\ heap \in ItemLists
    /\ cartItems = << >>
    /\ error = "none"
    /\ lastOp = Op("init", NoArg, NoArg)
    /\ added = [id \in CartIds |-> 0]
    /\ menuItems \in MenuSeeds
    /\ orders = <<Order("o1", "u1", [i \in 1..Len(heap) |-> i],
                        OrderStatus.RECEIVED, 0)>>
    /\ statusLog = << <<OrderStatus.RECEIVED>> >>
    /\ observers = << >>
    /\ delivered = << >>
    /\ attachedAt = [o \in Observers |-> 0]
    /\ clock = 0
    /\ savedIds = <<"o1">>
    /\ now = 0
    /\ placed = << >>
    /\ notified = << >>

CalculateTotal(pricing) ==
    /\ orders' = [orders EXCEPT ![1] =
                     calculateTotal(heap, @, pricing,
                                    SqliteMenuRepository_findAll(menuItems))]
    /\ lastOp' = Op("calculateTotal", pricing, NoArg)
    /\ UNCHANGED <<cartVars, error, menuItems, statusLog, savedIds, subjVars, appVars>>

NextPricing == \E pricing \in {"Simple", "Combo"} : CalculateTotal(pricing)

SpecPricing == InitPricing /\ [][NextPricing]_vars

\* ----------------------------------------------- claims on Order and pricing

Stage(s) ==
    CASE s = "RECEIVED" -> 1
      [] s = "PREPARING" -> 2
      [] s = "READY" -> 3
      [] s = "PICKED_UP" -> 4
      [] OTHER -> 0

\* C1: every advanceStatus call moves the status to exactly the next stage
\* of RECEIVED -> PREPARING -> READY -> PICKED_UP (no skip, no wrap-around,
\* no error); at PICKED_UP or at a value outside the four stages the call
\* leaves the status unchanged; four calls from RECEIVED yield RECEIVED,
\* PREPARING, READY, PICKED_UP, PICKED_UP.
C1_AdvanceStatusIsLinear ==
    /\ error = "none"
    /\ \A i \in 1..Len(orders) :
          LET log == statusLog[i]
          IN  /\ orders[i].status = log[Len(log)]
              /\ \A k \in 1..(Len(log) - 1) :
                    IF Stage(log[k]) \in 1..3
                    THEN Stage(log[k + 1]) = Stage(log[k]) + 1
                    ELSE log[k + 1] = log[k]
              /\ (log[1] = "RECEIVED" /\ Len(log) >= 5)
                    => SubSeq(log, 1, 5) = <<"RECEIVED", "PREPARING", "READY",
                                             "PICKED_UP", "PICKED_UP">>

\* four calls were made on an order created RECEIVED, and one on an order
\* whose status is outside the four stages
C1_Witness ==
    /\ statusLog[1] = <<"RECEIVED", "PREPARING", "READY",
                        "PICKED_UP", "PICKED_UP">>
    /\ statusLog[2] = <<"CANCELLED", "CANCELLED">>

\* a cart item counts when the menu has an available item with its id
Counts(ci, menu) ==
    \E k \in 1..Len(menu) : menu[k].id = ci.menuItemId /\ menu[k].available

PriceOf(ci, menu) ==
    menu[CHOOSE k \in 1..Len(menu) : menu[k].id = ci.menuItemId].price

RECURSIVE SumOfCounted(_, _)
SumOfCounted(items, menu) ==
    IF items = << >> THEN 0
    ELSE LET ci == items[Len(items)]
         IN  SumOfCounted(SubSeq(items, 1, Len(items) - 1), menu)
                + (IF Counts(ci, menu) THEN PriceOf(ci, menu) * ci.quantity
                   ELSE 0)

RECURSIVE QtyOfCounted(_, _)
QtyOfCounted(items, menu) ==
    IF items = << >> THEN 0
    ELSE LET ci == items[Len(items)]
         IN  QtyOfCounted(SubSeq(items, 1, Len(items) - 1), menu)
                + (IF Counts(ci, menu) THEN ci.quantity ELSE 0)

OrderItems == Deref(heap, orders[1].items)

\* C5: SimplePricingStrategy.computeTotal returns the sum of price *
\* quantity over exactly the cart items whose id matches an available menu
\* item; an unknown or unavailable item contributes zero, without error.
C5_SimpleTotalIsSumOfAvailable ==
    (lastOp.op = "calculateTotal" /\ lastOp.a = "Simple")
        => /\ orders[1].total = SumOfCounted(OrderItems, menuItems)
           /\ error = "none"

\* one item priced, one item of an unavailable menu entry skipped
C5_Witness ==
    /\ lastOp.op = "calculateTotal"
    /\ lastOp.a = "Simple"
    /\ Len(OrderItems) = 2
    /\ Counts(OrderItems[1], menuItems)
    /\ ~Counts(OrderItems[2], menuItems)
    /\ findMenuItem(menuItems, OrderItems[2].menuItemId) # 0
    /\ orders[1].total = 3500 * 2

\* C6: ComboPricingStrategy.computeTotal is 90% of the Simple total when the
\* quantity of the matched, available items is at least 3, and the Simple
\* total otherwise; unknown and unavailable items do not count.
C6_ComboIsNineTenthsFromThree ==
    (lastOp.op = "calculateTotal" /\ lastOp.a = "Combo")
        => LET simple == SimplePricingStrategy_computeTotal(OrderItems, menuItems)
           IN  IF QtyOfCounted(OrderItems, menuItems) >= 3
               THEN 10 * orders[1].total = 9 * simple
               ELSE orders[1].total = simple

\* the reduction applied at a counted quantity of exactly 3
C6_Witness ==
    /\ lastOp.op = "calculateTotal"
    /\ lastOp.a = "Combo"
    /\ QtyOfCounted(OrderItems, menuItems) = 3
    /\ Len(OrderItems) = 2
    /\ orders[1].total > 0
    /\ 10 * orders[1].total
          = 9 * SimplePricingStrategy_computeTotal(OrderItems, menuItems)

\* ---------------------------------------------------------- OrderSubject

\* OrderSubject.attach
attach(obs, observer) ==
    IF \E i \in 1..Len(obs) : obs[i] = observer
    THEN obs
    ELSE Append(obs, observer)

\* OrderSubject.detach
detach(obs, observer) == SelectSeq(obs, LAMBDA o : o # observer)

\* o.onStatusChanged(orderId, status) as the subject sees it
Invocation(observer, orderId, status) ==
    [observer |-> observer, orderId |-> orderId, status |-> status]

\* the for-loop of OrderSubject.notify from position k on.  An observer in
\* `throwing` throws from its onStatusChanged: nothing catches it, so the
\* exception leaves the loop and the call.
RECURSIVE notifyLoop(_, _, _, _, _, _)
notifyLoop(obs, k, orderId, status, throwing, calls) ==
    IF k > Len(obs) THEN [calls |-> calls, error |-> "none"]
    ELSE LET made == Append(calls, Invocation(obs[k], orderId, status))
         IN  IF obs[k] \in throwing
             THEN [calls |-> made, error |-> "onStatusChanged threw"]
             ELSE notifyLoop(obs, k + 1, orderId, status, throwing, made)

\* OrderSubject.notify
notify(obs, orderId, status, throwing) ==
    notifyLoop(obs, 1, orderId, status, throwing, << >>)

\* ------------------------------------------- specification: OrderSubject

InitSubject == InitCart

Attach(observer) ==
    /\ attachedAt[observer] = 0 => clock < MaxClock
    /\ observers' = attach(observers, observer)
    /\ IF attachedAt[observer] = 0
       THEN /\ clock' = clock + 1
            /\ attachedAt' = [attachedAt EXCEPT ![observer] = clock + 1]
       ELSE UNCHANGED <<clock, attachedAt>>
    /\ error' = "none"
    /\ lastOp' = Op("attach", observer, NoArg)
    /\ UNCHANGED <<cartVars, menuItems, orderVars, delivered, appVars>>

Detach(observer) ==
    /\ observers' = detach(observers, observer)
    /\ attachedAt' = [attachedAt EXCEPT ![observer] = 0]
    /\ error' = "none"
    /\ lastOp' = Op("detach", observer, NoArg)
    /\ UNCHANGED <<cartVars, menuItems, orderVars, delivered, clock, appVars>>

Notify(orderId, status, throwing) ==
    /\ LET r == notify(observers, orderId, status, throwing)
       IN  /\ delivered' = r.calls
           /\ error' = r.error
    /\ lastOp' = Op("notify", <<orderId, status>>, throwing)
    /\ UNCHANGED <<cartVars, menuItems, orderVars, observers, attachedAt, clock, appVars>>

NextSubject ==
    \/ \E o \in Observers : Attach(o)
    \/ \E o \in Observers : Detach(o)
    \/ \E status \in {"READY", "PREPARING"}, throwing \in SUBSET Observers :
          Notify("o1", status, throwing)

SpecSubject == InitSubject /\ [][NextSubject]_vars

\* --------------------------------------------- claims on the OrderSubject

InvocationsOf(observer) ==
    Cardinality({k \in 1..Len(delivered) : delivered[k].observer = observer})

Registered == {o \in Observers : attachedAt[o] > 0}

\* the registered observers in the order in which they became registered
InAttachmentOrder ==
    [i \in 1..Cardinality(Registered) |->
        CHOOSE o \in Registered :
            Cardinality({p \in Registered : attachedAt[p] < attachedAt[o]}) = i - 1]

RegistryHasNoDuplicates ==
    \A i, j \in 1..Len(observers) : observers[i] = observers[j] => i = j

\* C7: after any sequence of attach and detach calls no observer is
\* registered more than once, so every registered observer, however often it
\* was attached, receives exactly one onStatusChanged per notify call.
C7_RegisteredOnceNotifiedOnce ==
    /\ RegistryHasNoDuplicates
    /\ lastOp.op = "notify"
          => \A i \in 1..Len(observers) : InvocationsOf(observers[i]) = 1

\* C8: notify(orderId, status) invokes onStatusChanged(orderId, status) on
\* exactly the observers attached and not since detached, each once, in
\* attachment order; a detached observer receives nothing and detaching an
\* unregistered observer changes neither the registry nor the delivery order.
C8_NotifyReachesRegisteredInOrder ==
    /\ observers = InAttachmentOrder
    /\ lastOp.op = "notify"
          => delivered = [i \in 1..Len(InAttachmentOrder) |->
                            Invocation(InAttachmentOrder[i],
                                       lastOp.a[1], lastOp.a[2])]

\* C9: an observer whose onStatusChanged throws does not prevent delivery to
\* the observers attached after it: every attached observer is invoked.
C9_ThrowingObserverIsIsolated ==
    lastOp.op = "notify"
        => \A i \in 1..Len(observers) :
              \E k \in 1..Len(delivered) :
                 delivered[k] = Invocation(observers[i], lastOp.a[1], lastOp.a[2])

\* What holds of the code as it is: the registry part of C7 and C8 always,
\* and their delivery part for every notify call that no observer throws
\* from (the loop then runs to its end).
RegistryIsAttachmentOrder ==
    RegistryHasNoDuplicates /\ observers = InAttachmentOrder

DeliveryWhenNoObserverThrows ==
    (lastOp.op = "notify" /\ error = "none")
        => delivered = [i \in 1..Len(InAttachmentOrder) |->
                          Invocation(InAttachmentOrder[i],
                                     lastOp.a[1], lastOp.a[2])]

\* ------------------------------------------------------------ repositories

\* Array.prototype.findIndex by id: zero-based, -1 when absent
findIndexById(records, id) ==
    LET hits == {i \in 1..Len(records) : records[i].id = id}
    IN  IF hits = {} THEN -1
        ELSE (CHOOSE i \in hits : \A j \in hits : i <= j) - 1

\* SqliteMenuRepository.save
SqliteMenuRepository_save(items, item) ==
    LET idx == findIndexById(items, item.id)
    IN  IF idx >= 0 THEN [items EXCEPT ![idx + 1] = item]
        ELSE Append(items, item)

\* mutant: the record is pushed without looking for its id
SqliteOrderRepository_savePushes(stored, order) == Append(stored, order)

\* mutant: a stored id is removed and the record pushed at the end
SqliteOrderRepository_saveMovesToEnd(stored, order) ==
    Append(SelectSeq(stored, LAMBDA o : o.id # order.id), order)

\* SqliteOrderRepository.save
SqliteOrderRepository_save(stored, order) ==
    LET idx == findIndexById(stored, order.id)
    IN  IF idx >= 0 THEN [stored EXCEPT ![idx + 1] = order]
        ELSE Append(stored, order)

\* SqliteOrderRepository.findAll: a copy of the array
SqliteOrderRepository_findAll(stored) == [i \in 1..Len(stored) |-> stored[i]]

\* --------------------------------------------- specification: repositories

\* the head of seedMenu: Burger 3.50, Pizza Slice 2.00
seedMenu == <<MenuItem("m1", 3500, TRUE), MenuItem("m2", 2000, TRUE)>>

SavedMenuItems == [id : MenuIds \cup {"m3"}, price : Prices, available : BOOLEAN]

SavedOrders ==
    {Order(id, "u1", << >>, status, total) :
        id \in {"o1", "o2"}, status \in {"RECEIVED", "READY"},
        total \in {0, 3500}}

\* new SqliteMenuRepository(seedMenu), new SqliteOrderRepository()
InitRepo ==
    /\ heap = << >>
    /\ cartItems = << >>
    /\ error = "none"
    /\ lastOp = Op("init", NoArg, NoArg)
    /\ added = [id \in CartIds |-> 0]
    /\ menuItems = seedMenu
    /\ orders = << >>
    /\ statusLog = << >>
    /\ observers = << >>
    /\ delivered = << >>
    /\ attachedAt = [o \in Observers |-> 0]
    /\ clock = 0
    /\ savedIds = << >>
    /\ now = 0
    /\ placed = << >>
    /\ notified = << >>

MenuSave(item) ==
    /\ menuItems' = SqliteMenuRepository_save(menuItems, item)
    /\ error' = "none"
    /\ lastOp' = Op("menuRepo.save", item, NoArg)
    /\ UNCHANGED <<cartVars, orderVars, subjVars, appVars>>

OrderSave(order) ==
    /\ orders' = SqliteOrderRepository_save(orders, order)
    /\ savedIds' = IF \E k \in 1..Len(savedIds) : savedIds[k] = order.id
                   THEN savedIds ELSE Append(savedIds, order.id)
    /\ error' = "none"
    /\ lastOp' = Op("orderRepo.save", order, NoArg)
    /\ UNCHANGED <<cartVars, menuItems, statusLog, subjVars, appVars>>

\* SqliteMenuRepository.findById: the position of the first item with the
\* id (the object itself), 0 for null
SqliteMenuRepository_findById(items, id) == findIndexById(items, id) + 1

\* mutant: the flag is set on every item of the store
toggleAvailability_everyItem(items, id, available) ==
    [i \in 1..Len(items) |-> [items[i] EXCEPT !.available = available]]

\* SqliteMenuRepository.toggleAvailability
toggleAvailability(items, id, available) ==
    LET item == SqliteMenuRepository_findById(items, id)
    IN  IF item # 0 THEN [items EXCEPT ![item].available = available]
        ELSE items

\* SqliteOrderRepository.findById: the position of the first order with the
\* id (the object itself), 0 for null
SqliteOrderRepository_findById(stored, id) == findIndexById(stored, id) + 1

\* SqliteOrderRepository.findByStatus
SqliteOrderRepository_findByStatus(stored, status) ==
    SelectSeq(stored, LAMBDA o : o.status = status)

\* mutant: the status is written to the first stored order
updateStatus_firstOrder(stored, id, status) ==
    IF Len(stored) > 0 THEN [stored EXCEPT ![1].status = status] ELSE stored

\* SqliteOrderRepository.updateStatus
updateStatus(stored, id, status) ==
    LET order == SqliteOrderRepository_findById(stored, id)
    IN  IF order # 0 THEN [stored EXCEPT ![order].status = status]
        ELSE stored

ToggleAvailability(id, available) ==
    /\ menuItems' = toggleAvailability(menuItems, id, available)
    /\ error' = "none"
    /\ lastOp' = Op("toggleAvailability", id, available)
    /\ UNCHANGED <<cartVars, orderVars, subjVars, appVars>>

UpdateStatus(id, status) ==
    /\ orders' = updateStatus(orders, id, status)
    /\ error' = "none"
    /\ lastOp' = Op("updateStatus", id, status)
    /\ UNCHANGED <<cartVars, menuItems, statusLog, savedIds, subjVars, appVars>>

\* order.advanceStatus() on the stored Order object at position i
StoredAdvanceStatus(i) ==
    /\ orders' = [orders EXCEPT ![i] = advanceStatus(@)]
    /\ error' = "none"
    /\ lastOp' = Op("advanceStatus", i, NoArg)
    /\ UNCHANGED <<cartVars, menuItems, statusLog, savedIds, subjVars, appVars>>

\* order.calculateTotal(pricing, menuRepo.findAll()) on the stored Order
\* object at position i
StoredCalculateTotal(i, pricing) ==
    /\ orders' = [orders EXCEPT ![i] =
                     calculateTotal(heap, @, pricing,
                                    SqliteMenuRepository_findAll(menuItems))]
    /\ error' = "none"
    /\ lastOp' = Op("calculateTotal", pricing, i)
    /\ UNCHANGED <<cartVars, menuItems, statusLog, savedIds, subjVars, appVars>>

FindByStatus(status) ==
    /\ error' = "none"
    /\ lastOp' = Op("findByStatus", status,
                    SqliteOrderRepository_findByStatus(orders, status))
    /\ UNCHANGED <<cartVars, menuItems, orderVars, subjVars, appVars>>

NextRepo ==
    \/ \E item \in SavedMenuItems : MenuSave(item)
    \/ \E order \in SavedOrders : OrderSave(order)
    \/ \E id \in MenuIds \cup {"m3"}, available \in BOOLEAN :
          ToggleAvailability(id, available)
    \/ \E id \in {"o1", "o2", "o3"}, status \in AnyStatus :
          UpdateStatus(id, status)
    \/ \E i \in 1..Len(orders) : StoredAdvanceStatus(i)
    \/ \E i \in 1..Len(orders), pricing \in {"Simple", "Combo"} :
          StoredCalculateTotal(i, pricing)
    \/ \E status \in AnyStatus : FindByStatus(status)

SpecRepo == InitRepo /\ [][NextRepo]_vars

\* ------------------------------------------------ claims on the repositories

IdsOf(records) == {records[i].id : i \in 1..Len(records)}

OneRecordPerId(records) ==
    \A i, j \in 1..Len(records) : records[i].id = records[j].id => i = j

\* what the claim says a save of `record` turns the store `before` into
IsUpsert(before, after, record) ==
    /\ IF record.id \in IdsOf(before)
       THEN /\ Len(after) = Len(before)
            /\ \A i \in 1..Len(before) :
                  after[i] = IF before[i].id = record.id THEN record
                             ELSE before[i]
       ELSE /\ Len(after) = Len(before) + 1
            /\ \E i \in 1..Len(after) : after[i] = record
    /\ OneRecordPerId(after)

\* C10: in both repositories save is an upsert by id: a record with a new id
\* makes findAll() one longer, a record with a stored id leaves the length
\* unchanged and replaces the stored record at its position; a store seeded
\* without duplicate ids keeps at most one record per id.
C10_SaveIsUpsertById ==
    [][/\ lastOp'.op = "menuRepo.save"
            => IsUpsert(SqliteMenuRepository_findAll(menuItems),
                        SqliteMenuRepository_findAll(menuItems'), lastOp'.a)
       /\ lastOp'.op = "orderRepo.save"
            => IsUpsert(SqliteOrderRepository_findAll(orders),
                        SqliteOrderRepository_findAll(orders'), lastOp'.a)]_vars

\* a third menu item inserted, a seeded one replaced in place, and the first
\* of two stored orders saved again
C10_Witness ==
    /\ Len(menuItems) = 3
    /\ menuItems[1].id = "m1"
    /\ menuItems[1] # seedMenu[1]
    /\ lastOp.op = "orderRepo.save"
    /\ Len(orders) = 2
    /\ orders[1] = lastOp.a
    /\ orders[1].status = "READY"

\* ------------------------------------------------- abstract base classes

\* PricingStrategy.computeTotal: throw new Error(...)
PricingStrategy_computeTotal(items, menu) == "computeTotal must be implemented"

\* OrderObserver.onStatusChanged: the body is a comment; the call returns
OrderObserver_onStatusChanged(orderId, status) == "none"

MenuRepositoryMethods == {"findAll", "findById", "save", "toggleAvailability"}
OrderRepositoryMethods == {"save", "findById", "findByStatus", "updateStatus"}

\* MenuRepository.findAll / findById / save / toggleAvailability
MenuRepository(method) == "Not implemented"

\* OrderRepository.save / findById / findByStatus / updateStatus
OrderRepository(method) == "Not implemented"

\* ------------------------------------ specification: base-class operations

InitAbstract == InitCart

CallPricingStrategy(items, menu) ==
    /\ error' = PricingStrategy_computeTotal(items, menu)
    /\ lastOp' = Op("PricingStrategy.computeTotal", items, menu)
    /\ UNCHANGED <<cartVars, menuItems, orderVars, subjVars, appVars>>

CallOrderObserver(orderId, status) ==
    /\ error' = OrderObserver_onStatusChanged(orderId, status)
    /\ lastOp' = Op("OrderObserver.onStatusChanged", orderId, status)
    /\ UNCHANGED <<cartVars, menuItems, orderVars, subjVars, appVars>>

CallMenuRepository(method) ==
    /\ error' = MenuRepository(method)
    /\ lastOp' = Op("MenuRepository", method, NoArg)
    /\ UNCHANGED <<cartVars, menuItems, orderVars, subjVars, appVars>>

CallOrderRepository(method) ==
    /\ error' = OrderRepository(method)
    /\ lastOp' = Op("OrderRepository", method, NoArg)
    /\ UNCHANGED <<cartVars, menuItems, orderVars, subjVars, appVars>>

NextAbstract ==
    \/ \E items \in {l \in ItemLists : Len(l) <= 1}, menu \in MenuSeeds :
          CallPricingStrategy(items, menu)
    \/ \E orderId \in {"o1", "o2"}, status \in AnyStatus :
          CallOrderObserver(orderId, status)
    \/ \E method \in MenuRepositoryMethods : CallMenuRepository(method)
    \/ \E method \in OrderRepositoryMethods : CallOrderRepository(method)

SpecAbstract == InitAbstract /\ [][NextAbstract]_vars

BaseOperations ==
    {"PricingStrategy.computeTotal", "OrderObserver.onStatusChanged",
     "MenuRepository", "OrderRepository"}

\* C11: invoking any unimplemented base operation (PricingStrategy
\* .computeTotal, OrderObserver.onStatusChanged, every MenuRepository and
\* OrderRepository base method) raises a fatal error instead of silently
\* doing nothing.
C11_BaseOperationsRaise ==
    lastOp.op \in BaseOperations => error # "none"

\* what holds of the code: every base operation but the observer's raises
BaseOperationsButObserverRaise ==
    (lastOp.op \in BaseOperations /\ lastOp.op # "OrderObserver.onStatusChanged")
        => error # "none"

\* ---------------------------------- claims on stored orders and menu items

\* a step that is no save keeps every stored Order object in its place; a
\* save leaves the objects stored under other ids as they are
StoredObjectsStay ==
    /\ Len(orders') >= Len(orders)
    /\ lastOp'.op = "orderRepo.save"
          => \A i \in 1..Len(orders) :
                orders[i].id # lastOp'.a.id => orders'[i] = orders[i]

\* C12: an Order is mutated only by calculateTotal (total) and advanceStatus
\* (status); no other operation, the OrderRepository's included, changes the
\* status or the total of an order, so the status of a stored order never
\* moves to an earlier stage and never skips a stage.
C12_OnlyCalculateAndAdvanceMutate ==
    [][/\ StoredObjectsStay
       /\ lastOp'.op # "orderRepo.save"
            => \A i \in 1..Len(orders) :
                  /\ orders'[i].total # orders[i].total
                        => lastOp'.op = "calculateTotal"
                  /\ orders'[i].status # orders[i].status
                        => /\ lastOp'.op = "advanceStatus"
                           /\ Stage(orders'[i].status)
                                 = Stage(orders[i].status) + 1]_vars

\* C12 as amended: the status of an Order is changed only by advanceStatus,
\* to the next stage, and by OrderRepository.updateStatus, which sets the
\* status of the order with the given id to the given value, whatever the
\* stage; its total only by calculateTotal; save, findById, findByStatus and
\* findAll change no field of any order.
C12_AdvanceUpdateAndCalculateMutate ==
    [][/\ StoredObjectsStay
       /\ lastOp'.op # "orderRepo.save"
            => \A i \in 1..Len(orders) :
                  /\ orders'[i].id = orders[i].id
                  /\ orders'[i].items = orders[i].items
                  /\ orders'[i].total # orders[i].total
                        => lastOp'.op = "calculateTotal"
                  /\ orders'[i].status # orders[i].status
                        => \/ /\ lastOp'.op = "advanceStatus"
                              /\ Stage(orders'[i].status)
                                    = Stage(orders[i].status) + 1
                           \/ /\ lastOp'.op = "updateStatus"
                              /\ lastOp'.a = orders[i].id
                              /\ orders'[i].status = lastOp'.b]_vars

\* updateStatus has put the first order outside the four stages, its total
\* was recomputed, and advanceStatus has moved the second order to the end
C12_Witness ==
    /\ Len(orders) = 2
    /\ orders[1].status = "CANCELLED"
    /\ orders[1].id = "o2"
    /\ orders[2].status = "PICKED_UP"
    /\ lastOp.op = "advanceStatus"
    /\ lastOp.a = 2

\* C16: toggleAvailability(id, available) and updateStatus(id, status) with
\* an id that is not stored leave both stores unchanged and raise no error;
\* with a stored id they change only that record's available flag,
\* respectively status, to the given value.
C16_UnknownIdIsNoOpKnownIdSetsOneField ==
    [][/\ lastOp'.op = "toggleAvailability"
            => /\ orders' = orders
               /\ error' = "none"
               /\ Len(menuItems') = Len(menuItems)
               /\ \A i \in 1..Len(menuItems) :
                     menuItems'[i] =
                        IF menuItems[i].id = lastOp'.a
                        THEN [menuItems[i] EXCEPT !.available = lastOp'.b]
                        ELSE menuItems[i]
       /\ lastOp'.op = "updateStatus"
            => /\ menuItems' = menuItems
               /\ error' = "none"
               /\ Len(orders') = Len(orders)
               /\ \A i \in 1..Len(orders) :
                     orders'[i] =
                        IF orders[i].id = lastOp'.a
                        THEN [orders[i] EXCEPT !.status = lastOp'.b]
                        ELSE orders[i]]_vars

\* updateStatus was called for an id that is not stored, after
\* toggleAvailability had switched one of the two seeded items off
C16_Witness ==
    /\ lastOp.op = "updateStatus"
    /\ lastOp.a \notin IdsOf(orders)
    /\ Len(orders) = 2
    /\ menuItems = <<seedMenu[1], [seedMenu[2] EXCEPT !.available = FALSE]>>

\* the stored order with the id
StoredOrder(id) == orders[CHOOSE i \in 1..Len(orders) : orders[i].id = id]

\* C17: after any sequence of save, advanceStatus and updateStatus,
\* findByStatus(s) returns exactly the stored orders whose status is s, in
\* the order in which their ids were first saved.
C17_FindByStatusInFirstSaveOrder ==
    lastOp.op = "findByStatus"
        => /\ IdsOf(orders) = {savedIds[k] : k \in 1..Len(savedIds)}
           /\ LET ids == SelectSeq(savedIds,
                            LAMBDA id : StoredOrder(id).status = lastOp.a)
              IN  lastOp.b = [k \in 1..Len(ids) |-> StoredOrder(ids[k])]

\* two orders found, none missed, the one saved first (o2) before the other
C17_Witness ==
    /\ lastOp.op = "findByStatus"
    /\ Len(lastOp.b) = 2
    /\ Len(orders) = 2
    /\ lastOp.b[1].id = "o2"
    /\ lastOp.b[1].total = 3500
    /\ lastOp.b[1].status = "PICKED_UP"
    /\ lastOp.b[2].total = 0

\* -------------------------------------------------- the wired application

\* const pricing = new SimplePricingStrategy()
pricing == "Simple"

\* the UiOrderObserver attached at start-up, the only observer of the
\* application; its onStatusChanged logs and re-renders, and throws nothing
UiOrderObserver == "X"

\* currentStudent.id
currentStudent == "u1"

\* `o${Date.now()}`
orderIdAt(t) == <<"o", t>>

\* what an onStatusChanged invocation of the UI observer finds when it runs:
\* the status the order store holds for the id (renderOrders reads
\* orderRepo.findAll())
Seen(invocation, stored) ==
    [orderId |-> invocation.orderId,
     status |-> invocation.status,
     held |-> LET o == SqliteOrderRepository_findById(stored, invocation.orderId)
              IN  IF o = 0 THEN "none" ELSE stored[o].status]

SeenAll(calls, stored) ==
    [i \in 1..Len(calls) |-> Seen(calls[i], stored)]

\* the result of a click handler: the Order objects it created, the order
\* store and the cart it leaves, the invocations it made, and the size the
\* cart had while it made them
Handled(created, stored, cart, calls, cartSeen) ==
    [created |-> created, orders |-> stored, cartItems |-> cart,
     calls |-> calls, cartSeen |-> cartSeen]

\* mutant: the cart is cleared before the observers are notified
placeOrder_clearsBeforeNotify(h, cart, menuStore, stored, obs, t) ==
    LET items == getItems(cart)
    IN  IF Len(items) = 0 THEN Handled(<< >>, stored, cart, << >>, 0)
        ELSE LET menu == SqliteMenuRepository_findAll(menuStore)
                 total == computeTotal(pricing, Deref(h, items), menu)
                 order == Order(orderIdAt(t), currentStudent, items,
                                OrderStatus.RECEIVED, total)
                 saved == SqliteOrderRepository_save(stored, order)
                 cleared == clear(cart)
                 r == notify(obs, order.id, order.status, {})
             IN  Handled(<<order>>, saved, cleared,
                         SeenAll(r.calls, saved), Len(cleared))

\* mutant: the handler does not test for an empty cart
placeOrder_noEmptyCheck(h, cart, menuStore, stored, obs, t) ==
    LET items == getItems(cart)
        menu == SqliteMenuRepository_findAll(menuStore)
        total == computeTotal(pricing, Deref(h, items), menu)
        order == Order(orderIdAt(t), currentStudent, items,
                       OrderStatus.RECEIVED, total)
        saved == SqliteOrderRepository_save(stored, order)
        r == notify(obs, order.id, order.status, {})
    IN  Handled(<<order>>, saved, clear(cart), SeenAll(r.calls, saved),
                Len(cart))

\* the click handler of placeOrderBtn, with Date.now() = t
placeOrder(h, cart, menuStore, stored, obs, t) ==
    LET items == getItems(cart)
    IN  IF Len(items) = 0 THEN Handled(<< >>, stored, cart, << >>, 0)
        ELSE LET menu == SqliteMenuRepository_findAll(menuStore)
                 total == computeTotal(pricing, Deref(h, items), menu)
                 order == Order(orderIdAt(t), currentStudent, items,
                                OrderStatus.RECEIVED, total)
                 saved == SqliteOrderRepository_save(stored, order)
                 r == notify(obs, order.id, order.status, {})
             IN  Handled(<<order>>, saved, clear(cart),
                         SeenAll(r.calls, saved), Len(cart))

\* mutant: the observers are notified before the order is advanced
advanceClick_notifiesOldStatus(stored, i, cart, obs) ==
    LET r == notify(obs, stored[i].id, stored[i].status, {})
        order == advanceStatus(stored[i])
        held == [stored EXCEPT ![i] = order]
        saved == SqliteOrderRepository_save(held, order)
    IN  Handled(<< >>, saved, cart, SeenAll(r.calls, stored), Len(cart))

\* the click handler of the 'Next status' button rendered for the stored
\* Order object at position i: advanceStatus writes to that object
advanceClick(stored, i, cart, obs) ==
    LET order == advanceStatus(stored[i])
        held == [stored EXCEPT ![i] = order]
        saved == SqliteOrderRepository_save(held, order)
        r == notify(obs, order.id, order.status, {})
    IN  Handled(<< >>, saved, cart, SeenAll(r.calls, saved), Len(cart))

\* the placed Order object the store holds under an id: the last one created
\* with it
LatestPlaced(id) ==
    CHOOSE k \in 1..Len(placed) :
        /\ placed[k].order.id = id
        /\ \A j \in 1..Len(placed) : placed[j].order.id = id => j <= k

\* ------------------------------------------- specification: application

\* the module-level constructions of the script and the one attach
InitApp ==
    /\ heap = << >>
    /\ cartItems = << >>
    /\ error = "none"
    /\ lastOp = Op("init", NoArg, NoArg)
    /\ added = [id \in CartIds |-> 0]
    /\ menuItems = seedMenu
    /\ orders = << >>
    /\ statusLog = << >>
    /\ observers = attach(<< >>, UiOrderObserver)
    /\ delivered = << >>
    /\ attachedAt = [o \in Observers |-> IF o = UiOrderObserver THEN 1 ELSE 0]
    /\ clock = 1
    /\ savedIds = << >>
    /\ now = 0
    /\ placed = << >>
    /\ notified = << >>

\* In the application lastOp records a click on 'Place order' with the size
\* of the cart it found; any other step is recorded as "other".
Other == Op("other", NoArg, NoArg)

\* a click on 'Place order' while Date.now() returns t; the clock does not
\* run backwards
PlaceOrder(t) ==
    /\ t >= now
    /\ LET r == placeOrder(heap, cartItems, menuItems, orders, observers, t)
       IN  /\ orders' = r.orders
           /\ cartItems' = r.cartItems
           /\ IF r.created # << >>
              THEN /\ placed' = Append(placed,
                                   [order |-> r.created[1],
                                    values |-> Deref(heap, r.created[1].items),
                                    cartSeen |-> r.cartSeen])
                   /\ notified' = Append(notified, r.calls)
                   /\ now' = t
              ELSE UNCHANGED <<placed, notified, now>>
    /\ lastOp' = Op("placeOrder", Len(cartItems), NoArg)
    /\ UNCHANGED <<heap, added, error, menuItems, statusLog, savedIds,
                   subjVars>>

\* a click on the 'Next status' button of the stored order at position i;
\* the button of a PICKED_UP order is disabled
AdvanceButton(i) ==
    /\ orders[i].status # OrderStatus.PICKED_UP
    /\ LET r == advanceClick(orders, i, cartItems, observers)
           k == LatestPlaced(orders[i].id)
       IN  /\ orders' = r.orders
           /\ notified' = [notified EXCEPT ![k] = @ \o r.calls]
    /\ lastOp' = Other
    /\ UNCHANGED <<cartVars, error, menuItems, statusLog, savedIds, subjVars,
                   now, placed>>

\* the number of clicks on 'Add' so far: every click adds 1 to the quantity
\* of one CartItem object
RECURSIVE Clicks(_)
Clicks(h) == IF h = << >> THEN 0 ELSE Head(h).quantity + Clicks(Tail(h))

\* a click on the 'Add' button of a menu item: cart.addItem(item.id, 1)
AddButton(id) ==
    /\ Clicks(heap) < MaxAdds
    /\ LET c == addItem(heap, cartItems, id, 1)
       IN  /\ heap' = c.heap
           /\ cartItems' = c.items
    /\ lastOp' = Other
    /\ UNCHANGED <<added, error, menuItems, orderVars, subjVars, appVars>>

\* a click on the 'Remove' button of a cart line: cart.removeItem(mi.id)
RemoveButton(id) ==
    /\ cartItems' = removeItem(heap, cartItems, id)
    /\ lastOp' = Other
    /\ UNCHANGED <<heap, added, error, menuItems, orderVars, subjVars, appVars>>

\* cart.clear() called on its own
CartClear ==
    /\ cartItems' = clear(cartItems)
    /\ lastOp' = Other
    /\ UNCHANGED <<heap, added, error, menuItems, orderVars, subjVars, appVars>>

\* menuRepo.toggleAvailability(id, available)
MenuToggle(id, available) ==
    /\ menuItems' = toggleAvailability(menuItems, id, available)
    /\ lastOp' = Other
    /\ UNCHANGED <<cartVars, error, orderVars, subjVars, appVars>>

\* menuRepo.save(item)
MenuUpdate(item) ==
    /\ menuItems' = SqliteMenuRepository_save(menuItems, item)
    /\ lastOp' = Other
    /\ UNCHANGED <<cartVars, error, orderVars, subjVars, appVars>>

NextApp ==
    \/ \E id \in MenuIds : AddButton(id)
    \/ \E id \in MenuIds : RemoveButton(id)
    \/ CartClear
    \/ \E t \in 0..MaxNow : PlaceOrder(t)
    \/ \E i \in 1..Len(orders) : AdvanceButton(i)
    \/ \E available \in BOOLEAN : MenuToggle("m1", available)
    \/ MenuUpdate(MenuItem("m1", 2000, TRUE))

SpecApp == InitApp /\ [][NextApp]_vars

\* ------------------------------------------------ claims on the application

\* the positions of the order store that hold the Order object of checkout k
StoredAt(k) ==
    {i \in 1..Len(orders) :
        orders[i].id = placed[k].order.id /\ LatestPlaced(orders[i].id) = k}

\* C13: the items of a placed order are a snapshot taken at checkout: the
\* items of every Order object ever placed have the menuItemIds and the
\* quantities they had when its checkout completed, whatever cart operations
\* and checkouts came later, and the order the store holds still has the item
\* list it was created with.
C13_PlacedItemsAreASnapshot ==
    /\ \A k \in 1..Len(placed) :
          Deref(heap, placed[k].order.items) = placed[k].values
    /\ \A k \in 1..Len(placed) : \A i \in StoredAt(k) :
          orders[i].items = placed[k].order.items

\* after a first checkout the same id was added again, and a second checkout
\* was made with it
C13_Witness ==
    /\ Len(placed) >= 2
    /\ placed[1].values = placed[2].values
    /\ placed[1].order.items # placed[2].order.items
    /\ Len(orders) = 2

\* C14: every successful checkout adds a distinct order to the store: the
\* ids of the orders placed are pairwise different and the store holds as
\* many orders as there were successful checkouts.
C14_EveryCheckoutAddsADistinctOrder ==
    /\ \A j, k \in 1..Len(placed) :
          placed[j].order.id = placed[k].order.id => j = k
    /\ Len(orders) = Len(placed)

\* C15: the total of a placed order is the value the pricing strategy returns
\* for the cart and the menu of the moment of checkout, and from then on the
\* stored order keeps that total, which is not negative, through cart
\* operations, menu changes, status advances and notifications.
C15_TotalIsFixedAtCheckout ==
    /\ [](\A k \in 1..Len(placed) : \A i \in StoredAt(k) :
             /\ orders[i].total = placed[k].order.total
             /\ orders[i].total >= 0)
    /\ [][Len(placed') = Len(placed) + 1 =>
             placed'[Len(placed')].order.total
                = SimplePricingStrategy_computeTotal(
                      CartView, SqliteMenuRepository_findAll(menuItems))]_vars

\* a stored order has been advanced, and the menu has changed since its
\* checkout so that the strategy would now return another total for its items
C15_Witness ==
    \E i \in 1..Len(orders) :
        /\ orders[i].status = OrderStatus.READY
        /\ orders[i].total > 0
        /\ SimplePricingStrategy_computeTotal(
               Deref(heap, orders[i].items),
               SqliteMenuRepository_findAll(menuItems)) # orders[i].total

\* C18: when a checkout with a non-empty cart has finished, the order it
\* created is in the store with status RECEIVED, the observer has been
\* notified once with (order id, RECEIVED) and found the store holding the
\* order as RECEIVED and the cart still full, and the cart is empty.
C18_CheckoutStoresNotifiesThenClears ==
    (lastOp.op = "placeOrder" /\ lastOp.a > 0) =>
        /\ Len(placed) > 0
        /\ LET k == Len(placed)
           IN  /\ \E i \in 1..Len(orders) : orders[i] = placed[k].order
               /\ placed[k].order.status = OrderStatus.RECEIVED
               /\ notified[k] = <<[orderId |-> placed[k].order.id,
                                   status |-> OrderStatus.RECEIVED,
                                   held |-> OrderStatus.RECEIVED]>>
               /\ placed[k].cartSeen = lastOp.a
        /\ cartItems = << >>

\* a second checkout with a non-empty cart has finished, and the store
\* holds both orders
C18_Witness ==
    /\ lastOp.op = "placeOrder"
    /\ lastOp.a > 0
    /\ Len(placed) = 2
    /\ Len(orders) = 2

\* C19: a click on 'Place order' that finds the cart empty changes nothing:
\* no order is created or stored, no observer is notified, and the cart, the
\* order store and the menu store stay as they are.
C19_EmptyCartCheckoutHasNoEffect ==
    [][(lastOp'.op = "placeOrder" /\ lastOp'.a = 0) =>
          UNCHANGED <<heap, cartItems, menuItems, orders, placed, notified,
                      delivered, observers, now>>]_vars

\* a checkout was attempted with an empty cart while the store held an order
C19_Witness ==
    /\ lastOp.op = "placeOrder"
    /\ lastOp.a = 0
    /\ Len(orders) > 0

====
